---------------------------- MODULE Spec2Model ----------------------------
(***************************************************************************)
(* Model of the APT repository sync pipeline of pulp_deb                   *)
(* (plugins/pulp_deb/plugins/importers/sync.py).                           *)
(*                                                                         *)
(* One sync run is the lifecycle RepoSync.__init__ builds: the children    *)
(* of the RepoSync step run one after the other, each child's process_main *)
(* is one action, and an exception raised by a child ends the run.  The    *)
(* content store (units in the database, units associated with the         *)
(* repository, the packages list of every component unit) outlives a run;  *)
(* the attributes of the RepoSync object live for one run.  The remote     *)
(* repository and the Downloader are the environment.                      *)
(*                                                                         *)
(* Every configured release has a release document with its own            *)
(* codename/suite, so a release unit is identified by the release name.    *)
(***************************************************************************)
EXTENDS Integers, Sequences, FiniteSets, TLC

\* ------------------------------------------------------------------ bounds
NumPkgs == 3          \* distinct package checksums the remote may serve
MaxListings == 2      \* package entries over all remote package indices
MaxRuns == 2          \* sync runs in one behaviour
MaxRemoteChanges == 1 \* changes of the remote repository between runs
MaxFaults == 1        \* downloads that fail or deliver wrong bytes, in one behaviour

\* ---------------------------------------------------------------- universe
Rels == {"stable", "testing"}
Comps == {"main", "contrib"}
Archs == {"amd64", "i386"}
Pkgs == 1..NumPkgs

\* order in which a release document advertises components / architectures
CompOrder == <<"main", "contrib">>
ArchOrder == <<"amd64", "i386">>

\* a package entry of a remote package index: <<release, component, arch, checksum>>
Listings == Rels \X Comps \X Archs \X Pkgs

\* pkg['Filename'] of the package with checksum p: its pool directory and
\* its base name; packages 1 and 3 are two builds with the same file name
FileDir(p) == p
FileBase(p) == IF p % 2 = 1 THEN "a_1.0_all.deb" ELSE "b_1.0_all.deb"
Filename(p) == <<FileDir(p), FileBase(p)>>

\* bytes that hash to no declared checksum
Garbage == 0
\* no file at a path
NoFile == -1

\* units of the content store
RelUnit(r) == <<"deb_release", r>>
CompUnit(r, c) == <<"deb_component", r, c>>
DebUnit(p) == <<"deb", p>>

\* split_or_none: None is modelled by the empty list, which split never returns
NoneList == {}
split_or_none(data) == IF data = {} THEN NoneList ELSE data

\* --------------------------------------------------------------- sequences
Range(s) == {s[i] : i \in DOMAIN s}
Perms(S) == {f \in [1..Cardinality(S) -> S] : \A i, j \in DOMAIN f : f[i] = f[j] => i = j}
Min(S) == CHOOSE x \in S : \A y \in S : x <= y
RECURSIVE Ascending(_)
Ascending(S) == IF S = {} THEN <<>> ELSE <<Min(S)>> \o Ascending(S \ {Min(S)})
SelectIn(s, S) == SelectSeq(s, LAMBDA x : x \in S)

VARIABLES
    \* environment
    cfg,                \* the importer configuration
    remote,             \* package entries of the remote package indices
    advertised,         \* components each remote release document advertises
    remote_changes,     \* changes of the remote so far
    faults,             \* faulty downloads so far
    \* content store
    db_units,           \* release and component units in the database
    db_debs,            \* package units saved in the database, by checksum
    db_comp_packages,   \* DebComponent.packages of every component unit
    repo_units,         \* units associated with the repository
    \* the run
    stage, runs, error,
    release_docs,       \* release documents in the working directory
    release_gpgs,       \* detached signatures in the working directory
    apt_repo_meta, release_units, component_units, component_packages,
    packages_urls, packages_downloads, packages_files,
    available_units, unit_relative_urls, units_to_download,
    unit_downloads, path_to_unit, unit_files,
    debs_to_check, deb_comps_to_check, deb_releases_to_check,
    \* history
    verified,           \* checksums whose downloaded bytes matched, ever
    saved_comps,        \* component units saved by SaveMetadataStep this run
    removed,            \* units removed by OrphanRemovedUnits this run
    prev                \* what the run before this one saw and left

env == <<cfg, remote, advertised, remote_changes, faults>>
store == <<db_units, db_debs, db_comp_packages, repo_units>>
run_release == <<release_docs, release_gpgs, apt_repo_meta, release_units,
                 component_units, packages_urls, packages_downloads>>
run_packages == <<packages_files, available_units, unit_relative_urls, component_packages>>
run_units == <<units_to_download, unit_downloads, path_to_unit, unit_files>>
run_check == <<debs_to_check, deb_comps_to_check, deb_releases_to_check>>
history == <<verified, saved_comps, removed, prev>>
vars == <<env, store, stage, runs, error, run_release, run_packages, run_units,
          run_check, history>>


\* ------------------------------------------------------------ configuration
NoFeed == "None"
NoKeys == {}
Configs ==
    {c \in [feed : {"http://feed", NoFeed},
            releases : {<<"stable">>, <<"stable", "testing">>},
            components : {split_or_none({}), split_or_none({"main"})},
            architectures : {split_or_none({}), split_or_none({"amd64"})},
            remove_missing : BOOLEAN,
            require_signature : BOOLEAN,
            allowed_keys : {NoKeys, {"KEY1"}}] :
        /\ c.feed = NoFeed =>
              /\ c.releases = <<"stable">>
              /\ c.components = NoneList /\ c.architectures = NoneList
              /\ ~c.remove_missing /\ ~c.require_signature
        /\ ~c.require_signature => c.allowed_keys = NoKeys
        /\ c.require_signature =>
              c.components = NoneList /\ c.architectures = NoneList /\ ~c.remove_missing}

RECURSIVE ListingSets(_)
ListingSets(k) ==
    IF k = 0 THEN {{}}
    ELSE LET smaller == ListingSets(k - 1)
         IN  smaller \cup {s \cup {l} : s \in smaller, l \in Listings}

CompKeys == Rels \X Comps

NoRun == [completed |-> FALSE, remote |-> {}, advertised |-> [r \in Rels |-> Comps],
          repo_units |-> {}, db_comp_packages |-> [k \in CompKeys |-> {}]]

\* the attributes RepoSync.__init__ sets before a child runs
Fresh ==
    [release_docs |-> {},
     release_gpgs |-> [r \in Rels |-> "absent"],
     apt_repo_meta |-> {},
     release_units |-> {},
     component_units |-> [r \in Rels |-> {}],
     component_packages |-> [k \in CompKeys |-> <<>>],
     packages_urls |-> [r \in Rels |-> {}],
     packages_downloads |-> {},
     packages_files |-> {},
     available_units |-> {},
     unit_relative_urls |-> [p \in Pkgs |-> <<>>],
     units_to_download |-> {},
     unit_downloads |-> {},
     path_to_unit |-> {},
     unit_files |-> {},
     saved_comps |-> {},
     removed |-> {}]

Init ==
    /\ cfg \in Configs
    /\ remote \in {s \in ListingSets(MaxListings) : \A l \in s : l[1] \in Range(cfg.releases)}
    /\ advertised = [r \in Rels |-> Comps]
    /\ remote_changes = 0
    /\ faults = 0
    /\ db_units = {}
    /\ db_debs = {}
    /\ db_comp_packages = [k \in CompKeys |-> {}]
    /\ repo_units = {}
    /\ stage = "idle"
    /\ runs = 0
    /\ error = "none"
    /\ release_docs = Fresh.release_docs
    /\ release_gpgs = Fresh.release_gpgs
    /\ apt_repo_meta = Fresh.apt_repo_meta
    /\ release_units = Fresh.release_units
    /\ component_units = Fresh.component_units
    /\ component_packages = Fresh.component_packages
    /\ packages_urls = Fresh.packages_urls
    /\ packages_downloads = Fresh.packages_downloads
    /\ packages_files = Fresh.packages_files
    /\ available_units = Fresh.available_units
    /\ unit_relative_urls = Fresh.unit_relative_urls
    /\ units_to_download = Fresh.units_to_download
    /\ unit_downloads = Fresh.unit_downloads
    /\ path_to_unit = Fresh.path_to_unit
    /\ unit_files = Fresh.unit_files
    /\ saved_comps = Fresh.saved_comps
    /\ removed = Fresh.removed
    /\ debs_to_check = {}
    /\ deb_comps_to_check = {}
    /\ deb_releases_to_check = {}
    /\ verified = {}
    /\ prev = NoRun

\* ------------------------------------------------------------- environment
\* Between two runs the remote repository drops a package entry, gains one,
\* or stops advertising a component.  Only releases the configuration names
\* are ever read.
Retirable == {"contrib"}

RemoteDrop ==
    \E l \in remote :
        /\ remote' = remote \ {l}
        /\ UNCHANGED advertised

RemoteAdd ==
    /\ Cardinality(remote) < MaxListings
    /\ \E l \in Listings \ remote :
          /\ l[1] \in Range(cfg.releases)
          /\ l[2] \in advertised[l[1]]
          /\ remote' = remote \cup {l}
    /\ UNCHANGED advertised

RemoteRetire ==
    \E r \in Range(cfg.releases) : \E c \in advertised[r] \cap Retirable :
        /\ advertised' = [advertised EXCEPT ![r] = @ \ {c}]
        /\ remote' = {l \in remote : ~(l[1] = r /\ l[2] = c)}

\* the remote repository as the next run finds it
RemoteChange ==
    \/ UNCHANGED <<remote, advertised, remote_changes>>
    \/ /\ stage = "done"
       /\ remote_changes < MaxRemoteChanges
       /\ remote_changes' = remote_changes + 1
       /\ RemoteDrop \/ RemoteAdd \/ RemoteRetire

\* ------------------------------------------------------- RepoSync.__init__
\* the children with OrphanRemovedUnits added before SaveMetadataStep
Lifecycle_OrphanFirst(remove_missing) ==
    <<"release_download", "release_parse", "packages_download", "packages_parse",
      "local_units", "download_requests", "units_download", "save">>
        \o (IF remove_missing THEN <<"orphan">> ELSE <<>>) \o <<"save_meta">>

\* the children with SaveMetadataStep added before SaveDownloadedUnits
Lifecycle_MetaFirst(remove_missing) ==
    <<"release_download", "release_parse", "packages_download", "packages_parse",
      "local_units", "download_requests", "units_download", "save_meta", "save">>
        \o (IF remove_missing THEN <<"orphan">> ELSE <<>>)

\* the children with OrphanRemovedUnits added whatever the configuration
Lifecycle_AlwaysOrphan(remove_missing) ==
    <<"release_download", "release_parse", "packages_download", "packages_parse",
      "local_units", "download_requests", "units_download", "save", "save_meta",
      "orphan">>

\* the children of the RepoSync step, in the order add_child adds them
Lifecycle(remove_missing) ==
    <<"release_download", "release_parse", "packages_download", "packages_parse",
      "local_units", "download_requests", "units_download", "save", "save_meta">>
        \o (IF remove_missing THEN <<"orphan">> ELSE <<>>)

\* the stage after a child that ended without an exception
NextStage(current) ==
    LET children == Lifecycle(cfg.remove_missing)
        at == CHOOSE i \in DOMAIN children : children[i] = current
    IN  IF at = Len(children) THEN "done" ELSE children[at + 1]

\* what the run before this one saw and left
Outcome ==
    [completed |-> stage = "done", remote |-> remote, advertised |-> advertised,
     repo_units |-> repo_units, db_comp_packages |-> db_comp_packages]

UnitsOfType(units, type_id) == {u \in units : u[1] = type_id}

StartRun ==
    /\ stage \in {"idle", "done", "failed"}
    /\ runs < MaxRuns
    /\ runs' = runs + 1
    /\ release_docs' = Fresh.release_docs
    /\ release_gpgs' = Fresh.release_gpgs
    /\ apt_repo_meta' = Fresh.apt_repo_meta
    /\ release_units' = Fresh.release_units
    /\ component_units' = Fresh.component_units
    /\ component_packages' = Fresh.component_packages
    /\ packages_urls' = Fresh.packages_urls
    /\ packages_downloads' = Fresh.packages_downloads
    /\ packages_files' = Fresh.packages_files
    /\ available_units' = Fresh.available_units
    /\ unit_relative_urls' = Fresh.unit_relative_urls
    /\ units_to_download' = Fresh.units_to_download
    /\ unit_downloads' = Fresh.unit_downloads
    /\ path_to_unit' = Fresh.path_to_unit
    /\ unit_files' = Fresh.unit_files
    /\ saved_comps' = Fresh.saved_comps
    /\ removed' = Fresh.removed
    /\ IF cfg.feed = NoFeed
       THEN /\ stage' = "failed"
            /\ error' = "NoFeed"
            /\ debs_to_check' = {}
            /\ deb_comps_to_check' = {}
            /\ deb_releases_to_check' = {}
       ELSE /\ stage' = Lifecycle(cfg.remove_missing)[1]
            /\ error' = "none"
            /\ debs_to_check' =
                  IF cfg.remove_missing THEN UnitsOfType(repo_units, "deb") ELSE {}
            /\ deb_comps_to_check' =
                  IF cfg.remove_missing THEN UnitsOfType(repo_units, "deb_component") ELSE {}
            /\ deb_releases_to_check' =
                  IF cfg.remove_missing THEN UnitsOfType(repo_units, "deb_release") ELSE {}
    /\ prev' = Outcome
    /\ RemoteChange
    /\ UNCHANGED <<cfg, faults, store, verified>>

\* --------------------------------- DownloadStep(SYNC_STEP_RELEASE_DOWNLOAD)
\* The Downloader reports a failed item and the step goes on: the working
\* directory holds the documents that arrived.  A fault of this batch is a
\* release document that does not arrive, a signature that does not arrive,
\* or a signature that does not validate against the configured keys; a run
\* that does not require signatures never reads one.
ReleaseFaults ==
    {<<r, kind>> : r \in Range(cfg.releases),
                   kind \in IF cfg.require_signature THEN {"doc", "absent", "invalid"}
                            ELSE {"doc", "absent"}}

FaultSets(possible) ==
    {F \in SUBSET possible : Cardinality(F) <= MaxFaults - faults}

ReleaseDownload ==
    /\ stage = "release_download"
    /\ \E F \in FaultSets(ReleaseFaults) :
          /\ \A r \in Rels : ~(<<r, "absent">> \in F /\ <<r, "invalid">> \in F)
          /\ faults' = faults + Cardinality(F)
          /\ release_docs' = {r \in Range(cfg.releases) : <<r, "doc">> \notin F}
          /\ release_gpgs' = [r \in Rels |->
                                 IF r \notin Range(cfg.releases) \/ <<r, "absent">> \in F
                                 THEN "absent"
                                 ELSE IF <<r, "invalid">> \in F THEN "invalid" ELSE "valid"]
    /\ stage' = NextStage(stage)
    /\ UNCHANGED <<cfg, remote, advertised, remote_changes, store, runs, error,
                   apt_repo_meta, release_units, component_units,
                   packages_urls, packages_downloads, run_packages, run_units, run_check,
                   history>>

\* ------------------------------------------------------- ParseReleaseStep
\* verify_release that takes any signature that arrived for a valid one
verify_release_Unchecked(release) ==
    IF release \notin release_docs THEN "ReleaseNotFound"
    ELSE IF ~cfg.require_signature THEN "ok"
    ELSE IF cfg.allowed_keys = NoKeys THEN "NoAllowedKeys"
    ELSE IF release_gpgs[release] = "absent" THEN "MissingSignature"
    ELSE "ok"

\* verify_release that verifies a signature only when one arrived
verify_release_IfPresent(release) ==
    IF release \notin release_docs THEN "ReleaseNotFound"
    ELSE IF ~cfg.require_signature THEN "ok"
    ELSE IF cfg.allowed_keys = NoKeys THEN "NoAllowedKeys"
    ELSE IF release_gpgs[release] = "absent" THEN "ok"
    ELSE IF release_gpgs[release] # "valid" THEN "UntrustedRelease"
    ELSE "ok"

\* verify_release: "ok" or the exception it raises
verify_release(release) ==
    IF release \notin release_docs THEN "ReleaseNotFound"
    ELSE IF ~cfg.require_signature THEN "ok"
    ELSE IF cfg.allowed_keys = NoKeys THEN "NoAllowedKeys"
    ELSE IF release_gpgs[release] = "absent" THEN "MissingSignature"
    ELSE IF release_gpgs[release] # "valid" THEN "UntrustedRelease"
    ELSE "ok"

\* models.DebRelease / models.DebComponent get_or_create_and_associate on the
\* pair <<units in the database, units of the repository>>
get_or_create_and_associate(st, unit) ==
    [st EXCEPT !.db_units = @ \cup {unit}, !.repo_units = @ \cup {unit}]

\* repometa.create_Packages_download_requests: one request per advertised
\* component and architecture, carrying both as its data
create_Packages_download_requests(release) ==
    {<<release, c, a>> : c \in advertised[release], a \in Archs}

\* the filter without the components allow-list
FilterRequests_ArchOnly(reqs) ==
    IF cfg.architectures # NoneList
    THEN {dlr \in reqs : dlr[3] \in cfg.architectures}
    ELSE reqs

FilterRequests(reqs) ==
    LET by_comp == IF cfg.components # NoneList
                   THEN {dlr \in reqs : dlr[2] \in cfg.components}
                   ELSE reqs
    IN  IF cfg.architectures # NoneList
        THEN {dlr \in by_comp : dlr[3] \in cfg.architectures}
        ELSE by_comp

\* the components of a release that get a component unit
SelectedComponents(release) ==
    {c \in advertised[release] : cfg.components = NoneList \/ c \in cfg.components}

\* the loop over the components that leaves the orphan candidates alone
RECURSIVE AssociateComponents_NoRetain(_, _, _)
AssociateComponents_NoRetain(st, release, comps) ==
    IF comps = {} THEN st
    ELSE LET c == CHOOSE x \in comps : TRUE
             got == get_or_create_and_associate(st, CompUnit(release, c))
         IN  AssociateComponents_NoRetain(
                 [got EXCEPT !.component_units[release] = @ \cup {c},
                             !.component_packages[<<release, c>>] = <<>>],
                 release, comps \ {c})

RECURSIVE AssociateComponents(_, _, _)
AssociateComponents(st, release, comps) ==
    IF comps = {} THEN st
    ELSE LET c == CHOOSE x \in comps : TRUE
             got == get_or_create_and_associate(st, CompUnit(release, c))
         IN  AssociateComponents(
                 [got EXCEPT !.component_units[release] = @ \cup {c},
                             !.component_packages[<<release, c>>] = <<>>,
                             !.deb_comps_to_check = @ \ {CompUnit(release, c)}],
                 release, comps \ {c})

\* the loop body that raises DEBSYNC001 unless the release has one component
ParseOneRelease_OneComp(st, release) ==
    LET got == get_or_create_and_associate(
                   [st EXCEPT !.apt_repo_meta = @ \cup {release}], RelUnit(release))
        rel == [got EXCEPT !.release_units = @ \cup {release},
                           !.deb_releases_to_check = @ \ {RelUnit(release)}]
        comps == AssociateComponents(rel, release, SelectedComponents(release))
        rel_dl_reqs == FilterRequests(create_Packages_download_requests(release))
    IN  IF Cardinality(advertised[release]) # 1
        THEN [rel EXCEPT !.error = "DEBSYNC001"]
        ELSE [comps EXCEPT !.packages_urls[release] = rel_dl_reqs,
                           !.dl_reqs = @ \cup rel_dl_reqs]

\* the body of the loop over the releases, after verify_release returned
ParseOneRelease(st, release) ==
    LET got == get_or_create_and_associate(
                   [st EXCEPT !.apt_repo_meta = @ \cup {release}], RelUnit(release))
        rel == [got EXCEPT !.release_units = @ \cup {release},
                           !.deb_releases_to_check = @ \ {RelUnit(release)}]
        comps == AssociateComponents(rel, release, SelectedComponents(release))
        rel_dl_reqs == FilterRequests(create_Packages_download_requests(release))
    IN  [comps EXCEPT !.packages_urls[release] = rel_dl_reqs,
                      !.dl_reqs = @ \cup rel_dl_reqs]

\* the loop that parses a release before it verifies it
RECURSIVE ParseReleaseLoop_ParseFirst(_, _)
ParseReleaseLoop_ParseFirst(st, i) ==
    IF i > Len(cfg.releases) THEN st
    ELSE LET release == cfg.releases[i]
             parsed == ParseOneRelease(st, release)
             outcome == verify_release(release)
         IN  IF outcome # "ok" THEN [parsed EXCEPT !.error = outcome]
             ELSE ParseReleaseLoop_ParseFirst(parsed, i + 1)

RECURSIVE ParseReleaseLoop(_, _)
ParseReleaseLoop(st, i) ==
    IF i > Len(cfg.releases) THEN st
    ELSE LET release == cfg.releases[i]
             outcome == verify_release(release)
         IN  IF outcome # "ok" THEN [st EXCEPT !.error = outcome]
             ELSE ParseReleaseLoop(ParseOneRelease(st, release), i + 1)

ParseRelease ==
    /\ stage = "release_parse"
    /\ \E st \in {ParseReleaseLoop(
                    [error |-> "none", db_units |-> db_units, repo_units |-> repo_units,
                     apt_repo_meta |-> apt_repo_meta, release_units |-> release_units,
                     component_units |-> component_units,
                     component_packages |-> component_packages,
                     deb_comps_to_check |-> deb_comps_to_check,
                     deb_releases_to_check |-> deb_releases_to_check,
                     packages_urls |-> packages_urls, dl_reqs |-> {}], 1)} :
           /\ db_units' = st.db_units
           /\ repo_units' = st.repo_units
           /\ apt_repo_meta' = st.apt_repo_meta
           /\ release_units' = st.release_units
           /\ component_units' = st.component_units
           /\ component_packages' = st.component_packages
           /\ deb_comps_to_check' = st.deb_comps_to_check
           /\ deb_releases_to_check' = st.deb_releases_to_check
           /\ packages_urls' = st.packages_urls
           /\ error' = st.error
           /\ IF st.error = "none"
              THEN /\ packages_downloads' = st.dl_reqs
                   /\ stage' = NextStage(stage)
              ELSE /\ packages_downloads' = packages_downloads
                   /\ stage' = "failed"
    /\ UNCHANGED <<env, db_debs, db_comp_packages, runs, release_docs, release_gpgs,
                   packages_files, available_units, unit_relative_urls, run_units,
                   debs_to_check, history>>

\* -------------------------------- DownloadStep(SYNC_STEP_PACKAGES_DOWNLOAD)
\* packages_files: the requested package indices that arrived and match the
\* checksum the release document declares for them
PackagesDownload ==
    /\ stage = "packages_download"
    /\ \E lost \in FaultSets(packages_downloads) :
          /\ faults' = faults + Cardinality(lost)
          /\ packages_files' = packages_downloads \ lost
    /\ stage' = NextStage(stage)
    /\ UNCHANGED <<cfg, remote, advertised, remote_changes, store, runs, error, run_release, available_units,
                   unit_relative_urls, component_packages, run_units, run_check, history>>

\* -------------------------------------------------------- ParsePackagesStep
\* repometa.validate_component_arch_packages_downloads: the requests of this
\* release (those whose url is in packages_urls[release]) must all have a
\* valid file
validate_component_arch_packages_downloads(release) ==
    \A dlr \in packages_downloads :
        dlr \in packages_urls[release] => dlr \in packages_files

\* repometa.iter_component_arch_binaries: every advertised component with
\* every architecture, in the order of the release document
iter_component_arch_binaries(release) ==
    LET all == [k \in 1..(Len(CompOrder) * Len(ArchOrder)) |->
                   <<CompOrder[((k - 1) \div Len(ArchOrder)) + 1],
                     ArchOrder[((k - 1) % Len(ArchOrder)) + 1]>>]
    IN  SelectSeq(all, LAMBDA ca : ca[1] \in advertised[release])

\* ca.iter_packages: the entries of the validated index file, none when the
\* index was not fetched
iter_packages(release, ca) ==
    IF <<release, ca[1], ca[2]>> \in packages_files \cap packages_urls[release]
    THEN Ascending({p \in Pkgs : <<release, ca[1], ca[2], p>> \in remote})
    ELSE <<>>

\* the <<component, checksum>> pairs the two inner loops visit, in order
RECURSIVE ReleaseEntries(_, _, _)
ReleaseEntries(release, cas, k) ==
    IF k > Len(cas) THEN <<>>
    ELSE LET pkgs == iter_packages(release, cas[k])
         IN  [i \in 1..Len(pkgs) |-> <<cas[k][1], pkgs[i]>>]
                 \o ReleaseEntries(release, cas, k + 1)

\* a units dict keyed by checksum and component
UnitsKey_PerComponent(comp, checksum) == <<checksum, comp>>

\* the key of the units dict for a package entry
UnitsKey(comp, checksum) == <<checksum>>

\* units is a dict: a set of <<key, unit>> with one unit per key
Keys(units) == {kv[1] : kv \in units}
Lookup(units, key) == (CHOOSE kv \in units : kv[1] = key)[2]

RECURSIVE ParseEntries(_, _, _, _)
ParseEntries(st, release, entries, k) ==
    IF k > Len(entries) THEN st
    ELSE LET comp == entries[k][1]
             checksum == entries[k][2]
             key == UnitsKey(comp, checksum)
             units == IF key \in Keys(st.units) THEN st.units
                      ELSE st.units \cup {<<key, checksum>>}
             unit == Lookup(units, key)
         IN  IF comp \notin component_units[release]
             THEN [st EXCEPT !.error = "KeyError",
                             !.unit_relative_urls[checksum] = Filename(checksum),
                             !.units = units]
             ELSE ParseEntries(
                      [st EXCEPT !.unit_relative_urls[checksum] = Filename(checksum),
                                 !.units = units,
                                 !.component_packages[<<release, comp>>] = Append(@, unit)],
                      release, entries, k + 1)

RECURSIVE ParsePackagesLoop(_, _)
ParsePackagesLoop(st, i) ==
    IF i > Len(cfg.releases) THEN st
    ELSE LET release == cfg.releases[i]
         IN  IF ~validate_component_arch_packages_downloads(release)
             THEN [st EXCEPT !.error = "PackagesInvalid"]
             ELSE LET parsed == ParseEntries(st, release,
                                   ReleaseEntries(release,
                                       iter_component_arch_binaries(release), 1), 1)
                  IN  IF parsed.error # "none" THEN parsed
                      ELSE ParsePackagesLoop(parsed, i + 1)

ParsePackages ==
    /\ stage = "packages_parse"
    /\ \E st \in {ParsePackagesLoop(
                    [error |-> "none", units |-> {},
                     unit_relative_urls |-> unit_relative_urls,
                     component_packages |-> component_packages], 1)} :
           /\ unit_relative_urls' = st.unit_relative_urls
           /\ component_packages' = st.component_packages
           /\ error' = st.error
           /\ IF st.error = "none"
              THEN /\ available_units' = st.units
                   /\ stage' = NextStage(stage)
              ELSE /\ available_units' = available_units
                   /\ stage' = "failed"
    /\ UNCHANGED <<env, store, runs, run_release, packages_files, run_units, run_check,
                   history>>

\* ------------------------------------------- publish_step.GetLocalUnitsStep
\* The units found in the database are associated with the repository; the
\* others are the units to download.
\* a lookup that finds no unit in the database
FoundUnits_None(available, debs) == {}

\* the units of available that the database holds
FoundUnits(available, debs) == {kv \in available : kv[2] \in debs}

GetLocalUnits ==
    /\ stage = "local_units"
    /\ repo_units' = repo_units \cup {DebUnit(kv[2]) : kv \in FoundUnits(available_units, db_debs)}
    /\ units_to_download' = available_units \ FoundUnits(available_units, db_debs)
    /\ stage' = NextStage(stage)
    /\ UNCHANGED <<env, db_units, db_debs, db_comp_packages, runs, error, run_release,
                   run_packages, unit_downloads, path_to_unit, unit_files, run_check,
                   history>>

\* ---------------------------------------------- CreateRequestsUnitsToDownload
\* the first four hex digits of hashlib.md5(filename).hexdigest()
Md5HexDigest(filename) ==
    IF filename = "a_1.0_all.deb" THEN <<1, 14, 1, 12>> ELSE <<3, 9, 15, 2>>

generate_internal_storage_path(filename) ==
    LET hash_digest == Md5HexDigest(filename)
    IN  <<SubSeq(hash_digest, 1, 2), SubSeq(hash_digest, 3, 4)>>

\* os.path.basename of a url <<feed, <<directory, base name>> >>
Basename(url) == url[2][2]

UnitRequest(unit) ==
    LET url == <<cfg.feed, unit_relative_urls[unit]>>
        filename == Basename(url)
        dest == <<generate_internal_storage_path(filename), filename>>
    IN  <<url, dest>>

\* dict assignment d[key] = value
DictSet(d, key, value) == {kv \in d : kv[1] # key} \cup {<<key, value>>}

RECURSIVE CreateRequestsLoop(_, _, _)
CreateRequestsLoop(st, order, k) ==
    IF k > Len(order) THEN st
    ELSE LET unit == order[k][2]
             req == UnitRequest(unit)
         IN  CreateRequestsLoop(
                 [reqs |-> st.reqs \cup {<<k, req[1], req[2]>>},
                  path_to_unit |-> DictSet(st.path_to_unit, req[2], unit)],
                 order, k + 1)

\* units_to_download comes from the values of a dict: any order
CreateRequests ==
    /\ stage = "download_requests"
    /\ \E order \in Perms(units_to_download) :
          \E st \in {CreateRequestsLoop([reqs |-> {}, path_to_unit |-> {}], order, 1)} :
              /\ unit_downloads' = {<<r[2], r[3]>> : r \in st.reqs}
              /\ path_to_unit' = st.path_to_unit
    /\ stage' = NextStage(stage)
    /\ UNCHANGED <<env, store, runs, error, run_release, run_packages,
                   units_to_download, unit_files, run_check, history>>

\* ----------------------------------- DownloadStep(SYNC_STEP_UNITS_DOWNLOAD)
\* what a request can leave at its destination: the bytes of the package the
\* url names, other bytes, or nothing
Served(url) == {url[2][1], Garbage, NoFile}

\* A destination two requests share ends with what either of them left.
UnitsDownload ==
    /\ stage = "units_download"
    /\ LET dests == {dl[2] : dl \in unit_downloads}
           outcomes(dest) == UNION {Served(dl[1]) : dl \in {x \in unit_downloads :
                                                               x[2] = dest}}
       IN  \E files \in [dests -> Pkgs \cup {Garbage, NoFile}] :
              LET faulty == {dest \in dests : files[dest] \in {Garbage, NoFile}}
              IN  /\ \A dest \in dests : files[dest] \in outcomes(dest)
                  /\ Cardinality(faulty) <= MaxFaults - faults
                  /\ faults' = faults + Cardinality(faulty)
                  /\ unit_files' = {<<dest, files[dest]>> : dest \in dests}
    /\ stage' = NextStage(stage)
    /\ UNCHANGED <<cfg, remote, advertised, remote_changes, store, runs, error, run_release, run_packages,
                   units_to_download, unit_downloads, path_to_unit, run_check, history>>

\* ------------------------------------------------------ SaveDownloadedUnits
\* sorted(path_to_unit.items()): the paths differ in their digest directories
\* or in their file name
PathRank(path) ==
    LET d == Md5HexDigest(path[2])
    IN  ((d[1] * 16 + d[2]) * 16 + d[3]) * 16 + d[4]

RECURSIVE SortedItems(_)
SortedItems(d) ==
    IF d = {} THEN <<>>
    ELSE LET first == CHOOSE kv \in d : \A other \in d : PathRank(kv[1]) <= PathRank(other[1])
         IN  <<first>> \o SortedItems(d \ {first})

\* unit._compute_checksum of the file at path
compute_checksum(path) ==
    IF path \in Keys(unit_files) THEN Lookup(unit_files, path) ELSE NoFile

\* unit.save_and_associate on <<package units in the database, units of the repository>>
save_and_associate(st, unit) ==
    [st EXCEPT !.db_debs = @ \cup {unit}, !.repo_units = @ \cup {DebUnit(unit)}]

\* st with the fact recorded that the bytes at path match the checksum of unit
Matched(st, path, unit) ==
    IF compute_checksum(path) = unit THEN [st EXCEPT !.verified = @ \cup {unit}] ELSE st

\* the iteration without the comparison of the checksums
SaveOneUnit_Unverified(st, path, unit) ==
    IF compute_checksum(path) = NoFile THEN [st EXCEPT !.error = "IOError"]
    ELSE save_and_associate(Matched(st, path, unit), unit)

\* the iteration that passes over a file that is not there
SaveOneUnit_SkipMissing(st, path, unit) ==
    IF compute_checksum(path) = NoFile THEN st
    ELSE IF compute_checksum(path) # unit THEN [st EXCEPT !.error = "DEBSYNC002"]
    ELSE save_and_associate(Matched(st, path, unit), unit)

\* one iteration of the loop: the new state, with error set when it raises
SaveOneUnit(st, path, unit) ==
    IF compute_checksum(path) = NoFile THEN [st EXCEPT !.error = "IOError"]
    ELSE IF compute_checksum(path) # unit THEN [st EXCEPT !.error = "DEBSYNC002"]
    ELSE save_and_associate(Matched(st, path, unit), unit)

\* the loop that skips a file whose checksum does not match and goes on
RECURSIVE SaveUnitsLoop_Skip(_, _, _)
SaveUnitsLoop_Skip(st, items, k) ==
    IF k > Len(items) THEN st
    ELSE LET saved == SaveOneUnit(st, items[k][1], items[k][2])
         IN  IF saved.error = "DEBSYNC002" THEN SaveUnitsLoop_Skip(st, items, k + 1)
             ELSE IF saved.error # "none" THEN saved
             ELSE SaveUnitsLoop_Skip(saved, items, k + 1)

RECURSIVE SaveUnitsLoop(_, _, _)
SaveUnitsLoop(st, items, k) ==
    IF k > Len(items) THEN st
    ELSE LET saved == SaveOneUnit(st, items[k][1], items[k][2])
         IN  IF saved.error # "none" THEN saved
             ELSE SaveUnitsLoop(saved, items, k + 1)

SaveDownloadedUnits ==
    /\ stage = "save"
    /\ \E st \in {SaveUnitsLoop([error |-> "none", db_debs |-> db_debs,
                                 repo_units |-> repo_units, verified |-> verified],
                                SortedItems(path_to_unit), 1)} :
           /\ db_debs' = st.db_debs
           /\ repo_units' = st.repo_units
           /\ verified' = st.verified
           /\ error' = st.error
           /\ stage' = IF st.error = "none" THEN NextStage(stage) ELSE "failed"
    /\ UNCHANGED <<env, db_units, db_comp_packages, runs, run_release, run_packages,
                   run_units, run_check, saved_comps, removed, prev>>

\* --------------------------------------------------------- SaveMetadataStep
None == 0
\* models.DebPackage.objects.filter(**unit_key).first()
unit_key_to_unit(debs, unit_key) == IF unit_key \in debs THEN unit_key ELSE None

\* the inner loop over the unit keys of one component
RECURSIVE AddUnits(_, _, _)
AddUnits(st, unit_keys, k) ==
    IF k > Len(unit_keys) THEN st
    ELSE LET unit == unit_key_to_unit(db_debs, unit_keys[k])
         IN  IF unit = None THEN [st EXCEPT !.error = "AttributeError"]
             ELSE AddUnits([st EXCEPT !.comp_unit_packages_set = @ \cup {unit},
                                      !.debs_to_check = @ \ {DebUnit(unit)}],
                           unit_keys, k + 1)

\* a rebuild that always starts from the persisted list
StartingSet_Keep(remove_missing, packages) == packages

\* a rebuild that always starts from the empty set
StartingSet_Empty(remove_missing, packages) == {}

\* the set the packages of a component unit are rebuilt from
StartingSet(remove_missing, packages) == IF remove_missing THEN {} ELSE packages

\* a component whose list is written as far as it got when a unit is not found
SaveOneComponent_PartialWrite(st, release, comp) ==
    LET added == AddUnits(
                    [st EXCEPT !.comp_unit_packages_set =
                         StartingSet(cfg.remove_missing, st.db_comp_packages[<<release, comp>>])],
                    component_packages[<<release, comp>>], 1)
        written == [added EXCEPT !.db_comp_packages[<<release, comp>>] =
                                     added.comp_unit_packages_set]
    IN  IF added.error # "none" THEN written
        ELSE [written EXCEPT !.saved_comps = @ \cup {CompUnit(release, comp)}]

\* a component whose new list is merged into the persisted one
SaveOneComponent_Merge(st, release, comp) ==
    LET added == AddUnits(
                    [st EXCEPT !.comp_unit_packages_set =
                         StartingSet(cfg.remove_missing, st.db_comp_packages[<<release, comp>>])],
                    component_packages[<<release, comp>>], 1)
    IN  IF added.error # "none" THEN added
        ELSE [added EXCEPT !.db_comp_packages[<<release, comp>>] =
                               @ \cup added.comp_unit_packages_set,
                           !.saved_comps = @ \cup {CompUnit(release, comp)}]

SaveOneComponent(st, release, comp) ==
    LET added == AddUnits(
                    [st EXCEPT !.comp_unit_packages_set =
                         StartingSet(cfg.remove_missing, st.db_comp_packages[<<release, comp>>])],
                    component_packages[<<release, comp>>], 1)
    IN  IF added.error # "none" THEN added
        ELSE [added EXCEPT !.db_comp_packages[<<release, comp>>] = added.comp_unit_packages_set,
                           !.saved_comps = @ \cup {CompUnit(release, comp)}]

\* the pairs <<release, comp>> in the order the two loops visit them, the
\* components of a release in the order comp_order gives them
RECURSIVE ReleaseComponents(_, _, _)
ReleaseComponents(releases, comp_order, i) ==
    IF i > Len(releases) THEN <<>>
    ELSE LET comps == SelectIn(comp_order, component_units[releases[i]])
         IN  [k \in 1..Len(comps) |-> <<releases[i], comps[k]>>]
                 \o ReleaseComponents(releases, comp_order, i + 1)

RECURSIVE SaveMetadataLoop(_, _, _)
SaveMetadataLoop(st, pairs, k) ==
    IF k > Len(pairs) THEN st
    ELSE LET saved == SaveOneComponent(st, pairs[k][1], pairs[k][2])
         IN  IF saved.error # "none" THEN saved
             ELSE SaveMetadataLoop(saved, pairs, k + 1)

\* component_units[release].iteritems() visits the keys of a dict: any order
SaveMetadata ==
    /\ stage = "save_meta"
    /\ \E comp_order \in Perms(Comps) :
          \E st \in {SaveMetadataLoop(
                       [error |-> "none", db_comp_packages |-> db_comp_packages,
                        debs_to_check |-> debs_to_check, saved_comps |-> saved_comps,
                        comp_unit_packages_set |-> {}],
                       ReleaseComponents(cfg.releases, comp_order, 1), 1)} :
              /\ db_comp_packages' = st.db_comp_packages
              /\ debs_to_check' = st.debs_to_check
              /\ saved_comps' = st.saved_comps
              /\ error' = st.error
              /\ stage' = IF st.error = "none" THEN NextStage(stage) ELSE "failed"
    /\ UNCHANGED <<env, db_units, db_debs, repo_units, runs, run_release, run_packages,
                   run_units, deb_comps_to_check, deb_releases_to_check, verified,
                   removed, prev>>

\* ------------------------------------------------------- OrphanRemovedUnits
\* conduit.remove_unit of every unit of a list
remove_units(units, to_remove) == units \ to_remove

OrphanRemovedUnits ==
    /\ stage = "orphan"
    /\ repo_units' = remove_units(remove_units(remove_units(repo_units,
                         deb_releases_to_check), deb_comps_to_check), debs_to_check)
    /\ removed' = deb_releases_to_check \cup deb_comps_to_check \cup debs_to_check
    /\ stage' = NextStage(stage)
    /\ UNCHANGED <<env, db_units, db_debs, db_comp_packages, runs, error, run_release,
                   run_packages, run_units, run_check, verified, saved_comps, prev>>

Next ==
    \/ StartRun
    \/ ReleaseDownload
    \/ ParseRelease
    \/ PackagesDownload
    \/ ParsePackages
    \/ GetLocalUnits
    \/ CreateRequests
    \/ UnitsDownload
    \/ SaveDownloadedUnits
    \/ SaveMetadata
    \/ OrphanRemovedUnits

Spec == Init /\ [][Next]_vars

\* ===================================================================== claims
\* the packages among a set of units
Debs(units) == {u[2] : u \in UnitsOfType(units, "deb")}

\* the stages of a run that come after a given child ended without an exception
After(child) ==
    LET children == Lifecycle(cfg.remove_missing)
        at == CHOOSE i \in DOMAIN children : children[i] = child
    IN  {children[i] : i \in {j \in DOMAIN children : j > at}} \cup {"done"}

\* C1: in every state, also after a run aborted, every package in a
\* ComponentUnit.packages list, every package saved in the database and every
\* package associated with the repository is one whose downloaded bytes
\* matched its declared checksum and whose content was persisted.
C1_VerifiedBeforeCommitted ==
    /\ \A k \in CompKeys : db_comp_packages[k] \subseteq (verified \cap db_debs)
    /\ db_debs \subseteq verified
    /\ Debs(repo_units) \subseteq db_debs

\* a run aborted on a checksum mismatch while an earlier run's lists are committed
C1_Witness ==
    /\ stage = "failed" /\ error = "DEBSYNC002"
    /\ \E k \in CompKeys : db_comp_packages[k] # {}

\* the files of this run whose bytes hash to another checksum than the one the
\* unit they were fetched for declares
Mismatched ==
    {kv \in path_to_unit : compute_checksum(kv[1]) \notin {NoFile, kv[2]}}

\* C2: once SaveDownloadedUnits has run over fetched files of which one hashes
\* to another checksum than its unit declares, the run has failed, with
\* DEBSYNC002 when no file before it was missing; the unit is neither saved nor
\* associated and neither SaveMetadataStep nor OrphanRemovedUnits has run.
C2_MismatchStopsRun ==
    (Mismatched # {} /\ stage \in After("save") \cup {"failed"}) =>
        /\ stage = "failed"
        /\ error \in {"DEBSYNC002", "IOError"}
        /\ (\A kv \in path_to_unit : compute_checksum(kv[1]) # NoFile) => error = "DEBSYNC002"
        /\ \A kv \in Mismatched : kv[2] \notin db_debs /\ DebUnit(kv[2]) \notin repo_units
        /\ saved_comps = {}
        /\ removed = {}

C2_Witness ==
    /\ stage = "failed" /\ error = "DEBSYNC002"
    /\ \E kv \in Mismatched : compute_checksum(kv[1]) = Garbage

\* C3: when signatures are required and the signature of a configured release
\* does not validate, the run never enters the download of the package
\* indices: it is still before ParseReleaseStep or it has failed, and no
\* request for a package index was made.
C3_SignatureGate ==
    (cfg.require_signature /\ \E r \in Range(cfg.releases) : release_gpgs[r] = "invalid") =>
        /\ stage \in {"release_parse", "failed"}
        /\ packages_downloads = {}
        /\ packages_files = {}

\* the second of two releases has the bad signature: the first was parsed
C3_Witness ==
    /\ stage = "failed" /\ error = "UntrustedRelease"
    /\ Len(cfg.releases) = 2
    /\ release_gpgs[cfg.releases[2]] = "invalid"
    /\ cfg.releases[1] \in release_units

\* the <<release, component>> pairs this run got a component unit for
Synced == {k \in CompKeys : k[1] \in Range(cfg.releases) /\ k[2] \in component_units[k[1]]}

\* the packages the remote indices list for a component, over all architectures
RemoteListed(k) == {p \in Pkgs : \E a \in Archs : <<k[1], k[2], a, p>> \in remote}

\* the packages listed by the indices of a component that this run requested
ParsedListed(k) ==
    {p \in Pkgs : \E a \in Archs : /\ <<k[1], k[2], a>> \in packages_urls[k[1]]
                                   /\ <<k[1], k[2], a, p>> \in remote}

\* the packages some synced component's parsed indices list
Reaffirmed == UNION {Range(component_packages[k]) : k \in Synced}

\* C4 as stated: a failed run leaves the units of the repository and every
\* ComponentUnit.packages list as they were before the run.
C4_FailedRunLeavesAllUntouched ==
    stage = "failed" =>
        /\ repo_units = prev.repo_units
        /\ db_comp_packages = prev.db_comp_packages

\* C4 amended: a failed run removes no unit from the repository and changes
\* the packages list of no component unit that SaveMetadataStep did not save;
\* SaveMetadataStep saved one only after SaveDownloadedUnits had verified and
\* saved every file of the download plan.
C4_FailedRunKeepsCommitted ==
    stage = "failed" =>
        /\ prev.repo_units \subseteq repo_units
        /\ \A k \in CompKeys :
              CompUnit(k[1], k[2]) \notin saved_comps =>
                  db_comp_packages[k] = prev.db_comp_packages[k]
        /\ saved_comps # {} =>
              \A kv \in path_to_unit : compute_checksum(kv[1]) = kv[2] /\ kv[2] \in db_debs

\* a run failed after it saved and associated a package unit
C4_Witness ==
    /\ stage = "failed"
    /\ Debs(repo_units) \ Debs(prev.repo_units) # {}

\* C5 as stated: with removal enabled a completed run ends with every package
\* that a synced component listed before and the remote no longer lists for
\* it absent from the component's list and among the removed units.
C5_DroppedIsOrphaned ==
    (cfg.remove_missing /\ stage = "done") =>
        \A k \in Synced : \A p \in prev.db_comp_packages[k] \ RemoteListed(k) :
            /\ p \notin db_comp_packages[k]
            /\ DebUnit(p) \in removed

\* C5 amended: such a package is absent from the component's list, and it is
\* among the removed units exactly when no index parsed in this run lists it
\* for a synced component.
C5_DroppedIsOrphanedUnlessListed ==
    (cfg.remove_missing /\ stage = "done") =>
        \A k \in Synced : \A p \in prev.db_comp_packages[k] \ RemoteListed(k) :
            /\ p \notin db_comp_packages[k]
            /\ DebUnit(p) \in removed <=> p \notin Reaffirmed

C5_Witness ==
    /\ cfg.remove_missing /\ stage = "done"
    /\ \E k \in Synced : \E p \in prev.db_comp_packages[k] \ RemoteListed(k) :
          DebUnit(p) \in removed /\ DebUnit(p) \notin repo_units

\* C6: with removal disabled the packages list of every component unit
\* contains, in every state of a run, the list persisted before the run.
C6_AdditiveNeverShrinks ==
    ~cfg.remove_missing =>
        \A k \in CompKeys : prev.db_comp_packages[k] \subseteq db_comp_packages[k]

\* a completed run kept a package the remote no longer lists for the component
C6_Witness ==
    /\ ~cfg.remove_missing /\ stage = "done"
    /\ \E k \in Synced : CompUnit(k[1], k[2]) \in saved_comps
                         /\ db_comp_packages[k] \ RemoteListed(k) # {}

\* C7: after ParsePackagesStep the available units hold exactly one record for
\* every checksum that a parsed index lists and none for any other, the list
\* of every synced component holds the checksums its parsed indices list, and
\* a completed run has them in the persisted list.
C7_OneRecordPerChecksum ==
    stage \in After("packages_parse") =>
        /\ \A p \in Pkgs :
              Cardinality({kv \in available_units : kv[2] = p})
                  = IF \E k \in Synced : p \in ParsedListed(k) THEN 1 ELSE 0
        /\ \A k \in Synced :
              /\ Range(component_packages[k]) = ParsedListed(k)
              /\ stage = "done" => ParsedListed(k) \subseteq db_comp_packages[k]

\* one checksum listed by two components: one record, both lists have it
C7_Witness ==
    /\ stage = "done"
    /\ Cardinality(available_units) = 1
    /\ \E k1, k2 \in Synced :
          /\ k1 # k2
          /\ \E kv \in available_units :
                kv[2] \in db_comp_packages[k1] \cap db_comp_packages[k2]

\* the run before this one completed and the remote is as that run found it
Rerun ==
    /\ prev.completed
    /\ prev.remote = remote
    /\ prev.advertised = advertised

\* C8: a run after a completed run, against the same remote, plans no
\* download, and when it completes the units of the repository and every
\* packages list are what the earlier run left.
C8_Idempotent ==
    Rerun =>
        /\ units_to_download = {}
        /\ unit_downloads = {}
        /\ stage = "done" =>
              /\ repo_units = prev.repo_units
              /\ db_comp_packages = prev.db_comp_packages

C8_Witness ==
    /\ Rerun /\ stage = "done"
    /\ available_units # {}
    /\ Debs(repo_units) # {}

\* C9: every request for a package index has its component and its
\* architecture in the configured allow-lists; no component unit exists, is
\* held by the run or gets a package for a component outside the allow-list;
\* every record parsed comes from an index inside the allow-lists.
C9_AllowLists ==
    /\ cfg.components # NoneList =>
          \A dlr \in packages_downloads : dlr[2] \in cfg.components
    /\ cfg.architectures # NoneList =>
          \A dlr \in packages_downloads : dlr[3] \in cfg.architectures
    /\ cfg.components # NoneList =>
          \A r \in Rels : \A c \in Comps \ cfg.components :
              /\ CompUnit(r, c) \notin db_units \cup repo_units
              /\ c \notin component_units[r]
              /\ component_packages[<<r, c>>] = <<>>
    /\ \A kv \in available_units :
          \E l \in remote :
              /\ l[4] = kv[2]
              /\ l[1] \in Range(cfg.releases)
              /\ cfg.components = NoneList \/ l[2] \in cfg.components
              /\ cfg.architectures = NoneList \/ l[3] \in cfg.architectures

\* components=main against releases that advertise main and contrib, with a
\* package that only contrib lists
C9_Witness ==
    /\ cfg.components = {"main"} /\ stage = "done"
    /\ available_units # {}
    /\ \E l \in remote :
          /\ l[2] = "contrib" /\ "contrib" \in advertised[l[1]]
          /\ l[4] \notin {kv[2] : kv \in available_units}

\* C10: a step that removes units from the repository is taken only when
\* SaveMetadataStep has saved the component unit of every synced component,
\* and it removes no package that a list saved in this run holds.
C10_RemovalAfterCommit ==
    [][repo_units \ repo_units' # {} =>
          /\ \A k \in Synced : CompUnit(k[1], k[2]) \in saved_comps
          /\ \A p \in Debs(repo_units \ repo_units') : \A k \in Synced :
                p \notin db_comp_packages[k]]_vars

\* a package was removed after the lists of the run were saved
C10_Witness ==
    /\ stage = "done"
    /\ saved_comps # {}
    /\ Debs(removed) # {}
    /\ Debs(repo_units) # {}

\* the position of a stage in the order FETCH_RELEASE, PARSE_RELEASE,
\* FETCH_PACKAGE_INDICES, PARSE_PACKAGE_INDICES, RESOLVE_LOCAL,
\* FETCH_MISSING_CONTENT (requests, download), VERIFY_AND_SAVE_CONTENT,
\* SAVE_METADATA, ORPHAN_CLEANUP
StageRank(s) ==
    CASE s = "release_download" -> 1
      [] s = "release_parse" -> 2
      [] s = "packages_download" -> 3
      [] s = "packages_parse" -> 4
      [] s = "local_units" -> 5
      [] s = "download_requests" -> 6
      [] s = "units_download" -> 7
      [] s = "save" -> 8
      [] s = "save_meta" -> 9
      [] s = "orphan" -> 10
      [] OTHER -> 0

\* C11: a run starts with FETCH_RELEASE; every step of a run either fails it
\* or moves it from one stage to the stage right after it in the order, with
\* ORPHAN_CLEANUP present only when removal is enabled; a run ends after its
\* last stage; nothing but the start of a new run follows a failed or a
\* completed run; what a stage produces changes in the step of that stage only.
C11_StrictlyForward ==
    [][/\ stage \in {"idle", "done", "failed"} =>
             /\ runs' = runs + 1
             /\ stage' \in {"release_download", "failed"}
       /\ StageRank(stage) > 0 =>
             /\ runs' = runs
             /\ \/ stage' = "failed"
                \/ StageRank(stage') = StageRank(stage) + 1 /\ stage' # "orphan"
                \/ stage' = "orphan" /\ stage = "save_meta" /\ cfg.remove_missing
                \/ stage' = "done" /\ stage = "orphan"
                \/ stage' = "done" /\ stage = "save_meta" /\ ~cfg.remove_missing
       /\ runs' = runs =>
             /\ packages_downloads' # packages_downloads => stage = "release_parse"
             /\ available_units' # available_units => stage = "packages_parse"
             /\ units_to_download' # units_to_download => stage = "local_units"
             /\ path_to_unit' # path_to_unit => stage = "download_requests"
             /\ db_debs' # db_debs => stage = "save"
             /\ db_comp_packages' # db_comp_packages => stage = "save_meta"
             /\ removed' # removed => stage = "orphan"]_vars

\* a run that went through every stage, ORPHAN_CLEANUP included
C11_Witness ==
    /\ stage = "done" /\ cfg.remove_missing
    /\ available_units # {}
    /\ saved_comps # {}
    /\ removed # {}

\* a configured release whose release document is not in the working directory
MissingRelease == {r \in Range(cfg.releases) : r \notin release_docs}

\* the requested package indices that did not arrive
MissingIndices == packages_downloads \ packages_files

\* the requests of the download plan whose file is not at its destination
MissingFiles == {dl \in unit_downloads : compute_checksum(dl[2]) = NoFile}

\* C12: a run with a release document, a requested package index or a file
\* of the download plan missing does not get past the stage that reads the
\* item: it is waiting for the download, in the reading stage, or failed,
\* and SaveMetadataStep and OrphanRemovedUnits have saved and removed nothing.
C12_MissingDownloadIsFatal ==
    /\ MissingRelease # {} =>
          /\ stage \in {"idle", "release_download", "release_parse", "failed"}
          /\ saved_comps = {} /\ removed = {}
    /\ MissingIndices # {} =>
          /\ stage \in {"packages_download", "packages_parse", "failed"}
          /\ saved_comps = {} /\ removed = {}
    /\ MissingFiles # {} =>
          /\ stage \in {"units_download", "save", "failed"}
          /\ saved_comps = {} /\ removed = {}
    /\ (stage = "failed" /\ error = "none") => FALSE

\* a run stopped by a package file that did not arrive
C12_Witness ==
    /\ stage = "failed" /\ error = "IOError"
    /\ MissingFiles # {}
    /\ MissingRelease = {} /\ MissingIndices = {}

\* the release download has run in this run
ReleasesFetched == stage \notin {"idle", "release_download"} /\ cfg.feed # NoFeed

\* the configured releases whose detached signature did not arrive
Unsigned == {r \in Range(cfg.releases) : ReleasesFetched /\ release_gpgs[r] = "absent"}

\* the configured releases before a release, in the order of the configuration
Earlier(r) ==
    {cfg.releases[i] : i \in {j \in DOMAIN cfg.releases :
                                 \E k \in DOMAIN cfg.releases : j < k /\ cfg.releases[k] = r}}

NotOneComponent == {r \in apt_repo_meta : Cardinality(advertised[r]) # 1}

InvalidConfig ==
    \/ cfg.feed = NoFeed
    \/ cfg.require_signature /\ cfg.allowed_keys = NoKeys

\* C15: a run with an invalid configuration fails before the release
\* download step runs: no run with such a configuration gets past the
\* start of the lifecycle, and no document is downloaded for it.
C15_ConfigErrorBeforeDownload ==
    InvalidConfig =>
        /\ stage \in {"idle", "release_download", "failed"}
        /\ release_docs = {}
        /\ \A r \in Rels : release_gpgs[r] = "absent"

\* the units the current run re-affirmed: the release units and component
\* units ParseReleaseStep got, the packages SaveMetadataStep matched
RetainedUnits ==
    {RelUnit(r) : r \in release_units}
        \cup {CompUnit(k[1], k[2]) : k \in Synced}
        \cup (IF stage \in After("save_meta") THEN {DebUnit(p) : p \in Reaffirmed} ELSE {})

\* C16: once ParseReleaseStep has got a release unit or a component unit, the
\* unit is not among the orphan candidates; once SaveMetadataStep has ended,
\* no package it matched is; OrphanRemovedUnits removes no unit the run
\* re-affirmed, and it removes only units that were candidates at the start
\* of the run; after a completed run every package of a synced component's
\* list is associated with the repository.
C16_RetainedSet ==
    /\ RetainedUnits \cap (deb_releases_to_check \cup deb_comps_to_check \cup debs_to_check) = {}
    /\ RetainedUnits \cap removed = {}
    /\ removed \subseteq prev.repo_units
    /\ stage \in {"orphan", "done"} => RetainedUnits \subseteq repo_units
    /\ stage = "done" =>
          \A k \in Synced : \A p \in db_comp_packages[k] : DebUnit(p) \in repo_units

\* a completed run removed units and kept a release unit, a component unit
\* and a package that the run before had left and this run re-affirmed
C16_Witness ==
    /\ stage = "done" /\ cfg.remove_missing
    /\ removed # {}
    /\ \E u \in RetainedUnits \cap prev.repo_units : u[1] = "deb"
    /\ \E u \in RetainedUnits \cap prev.repo_units : u[1] = "deb_component"

\* C17: with removal enabled, once SaveMetadataStep has ended the persisted
\* list of every synced component is exactly the set of the packages that
\* the indices of that component parsed in this run list, whatever it held
\* before; it is empty when none of its indices was requested.
C17_FullReplacement ==
    (cfg.remove_missing /\ stage \in After("save_meta")) =>
        \A k \in Synced :
            /\ db_comp_packages[k] = ParsedListed(k)
            /\ db_comp_packages[k] = Range(component_packages[k])
            /\ packages_urls[k[1]] \cap {<<k[1], k[2], a>> : a \in Archs} = {}
                  => db_comp_packages[k] = {}

\* a completed run replaced a list by a smaller, non-empty one
C17_Witness ==
    /\ cfg.remove_missing /\ stage = "done"
    /\ \E k \in Synced :
          /\ db_comp_packages[k] # {}
          /\ prev.db_comp_packages[k] \ db_comp_packages[k] # {}

\* C18: once CreateRequestsUnitsToDownload has ended there is one download
\* request and one entry of path_to_unit for every unit to download, no two
\* units share a destination, and once SaveDownloadedUnits has ended every
\* unit to download is verified and saved.
C18_OneDestinationPerUnit ==
    stage \in After("download_requests") =>
        /\ Cardinality(unit_downloads) = Cardinality(units_to_download)
        /\ Cardinality(path_to_unit) = Cardinality(units_to_download)
        /\ \A kv \in units_to_download : \E pu \in path_to_unit : pu[2] = kv[2]
        /\ \A d1, d2 \in unit_downloads : d1[2] = d2[2] => d1 = d2
        /\ stage \in After("save") =>
              \A kv \in units_to_download : kv[2] \in verified \cap db_debs

\* the releases this run trusted: parsed, or given a release unit or a
\* component unit, or with a unit newly associated with the repository
Trusted ==
    {r \in Rels : \/ r \in apt_repo_meta
                  \/ r \in release_units
                  \/ component_units[r] # {}
                  \/ \E u \in repo_units \ prev.repo_units :
                        u[1] \in {"deb_release", "deb_component"} /\ u[2] = r}

\* C19: with signatures required, every release that the run parsed or got
\* or associated a release unit or component unit for has a release
\* document whose signature arrived and validated against the configured keys.
C19_VerifyBeforeTrust ==
    cfg.require_signature =>
        \A r \in Trusted :
            /\ r \in release_docs
            /\ release_gpgs[r] = "valid"
            /\ cfg.allowed_keys # NoKeys

\* the first release was verified and parsed, the second was refused and
\* has no unit
C19_Witness ==
    /\ cfg.require_signature /\ stage = "failed"
    /\ Len(cfg.releases) = 2
    /\ Trusted = {cfg.releases[1]}
    /\ RelUnit(cfg.releases[1]) \in repo_units
    /\ release_gpgs[cfg.releases[2]] # "valid"
    /\ RelUnit(cfg.releases[2]) \notin repo_units \cup db_units

\* C20: with removal disabled the three lists of orphan candidates are
\* empty in every state, no run is in the OrphanRemovedUnits stage, no unit
\* is removed, and no step takes a unit out of the repository, so the units
\* of the repository contain those it held when the run started.
C20_NoRemovalWhenDisabled ==
    ~cfg.remove_missing =>
        /\ debs_to_check = {} /\ deb_comps_to_check = {} /\ deb_releases_to_check = {}
        /\ stage # "orphan"
        /\ removed = {}
        /\ prev.repo_units \subseteq repo_units

\* a completed second run with removal disabled, after the remote dropped a
\* package that the repository still holds
C20_Witness ==
    /\ ~cfg.remove_missing /\ stage = "done" /\ prev.completed
    /\ \E p \in Debs(repo_units) : \A l \in remote : l[4] # p

=============================================================================
